---------------------------- MODULE Spec2Model ----------------------------
(***************************************************************************)
(* Model of the PPM decoder (ppm_loader.py), of the filters of             *)
(* image_filters.py and of the filter buttons of the main window           *)
(* (main.py).                                                              *)
(*                                                                         *)
(* A file is a sequence of character codes (bytes).  The decoder is        *)
(* modelled at the level of the calls the code makes on it: readline,      *)
(* strip, split, startswith, int, re.sub, re.findall, read, struct.unpack. *)
(* Every exception raised inside load_ppm_p3 / load_ppm_p6 is converted to *)
(* PPMError by the except clauses, so a failed call ends in pc = "error".  *)
(***************************************************************************)
EXTENDS Integers, Sequences, FiniteSets, TLC

VARIABLES
    inp,                \* description of the input file (kept to state properties)
    file,               \* the content of the file being decoded
    pc,                 \* position of the decoder
    pos,                \* file offset of the open file object (0-based)
    width, height, max_value,   \* header fields (0 until assigned)
    pixels,             \* the decoded pixel list
    error,              \* which PPMError was raised ("" when none)
    op,                 \* the filter that has been applied ("idle" before)
    image_data, image_width, image_height,  \* arguments of the filter call
    structuring_element,                     \* argument of the filter call
    result,             \* the list the filter returned
    kernel_size,        \* argument of apply_averaging_filter / apply_median_filter
    threshold,          \* argument of rgb_to_binary
    heap,               \* the list objects alive, by identity (1, 2, ...)
    returned,           \* identity of the list the filter returned (0 before)
    original_image_data,    \* MainWindow.original_image_data
    applied,            \* the buttons pressed since the image was loaded
    se_text,            \* the content of MainWindow.se_text
    loaded              \* what the last successful load returned (<<>> before)

decVars == <<inp, file, pc, pos, width, height, max_value, pixels, error>>
filVars == <<op, image_data, image_width, image_height, structuring_element, result,
             kernel_size, threshold, heap, returned>>
winVars == <<original_image_data, applied, se_text, loaded>>
vars == <<inp, file, pc, pos, width, height, max_value, pixels, error,
          op, image_data, image_width, image_height, structuring_element, result,
          kernel_size, threshold, heap, returned, original_image_data, applied,
          se_text, loaded>>

---------------------------------------------------------------------------
(* Characters the code names. *)
NL == 10
HASH == 35
CharP == 80
Char3 == 51
Char6 == 54
Char0 == 48
Char9 == 57
CharMinus == 45
CharPlus == 43
SP == 32

Whitespace == {9, 10, 11, 12, 13, 32}
IsSpace(c) == c \in Whitespace
IsDigit(c) == c \in Char0..Char9

Min2(a, b) == IF a < b THEN a ELSE b
Max2(a, b) == IF a > b THEN a ELSE b

\* s[from..] (1-based), empty when from is past the end
Tail_(s, from) == SubSeq(s, from, Len(s))

\* f.readline() at offset p: up to and including the next newline, or the
\* rest of the file; the empty sequence at end of file.
ReadLine(f, p) ==
    LET nls == {i \in (p + 1)..Len(f) : f[i] = NL}
        end == IF nls = {} THEN Len(f)
               ELSE CHOOSE i \in nls : \A j \in nls : i <= j
    IN SubSeq(f, p + 1, end)

\* str.strip() / bytes.strip()
Strip(s) ==
    LET ns == {i \in 1..Len(s) : ~IsSpace(s[i])}
    IN IF ns = {} THEN <<>>
       ELSE SubSeq(s, CHOOSE i \in ns : \A j \in ns : i <= j,
                      CHOOSE i \in ns : \A j \in ns : i >= j)

\* str.split() / bytes.split(): the maximal runs of non-whitespace
RECURSIVE Split(_)
Split(s) ==
    LET t == Strip(s)
    IN IF t = <<>> THEN <<>>
       ELSE LET sp == {i \in 1..Len(t) : IsSpace(t[i])}
                e == IF sp = {} THEN Len(t) + 1
                     ELSE CHOOSE i \in sp : \A j \in sp : i <= j
            IN <<SubSeq(t, 1, e - 1)>> \o Split(Tail_(t, e))

\* s.startswith(p)
StartsWith(s, p) == Len(s) >= Len(p) /\ SubSeq(s, 1, Len(p)) = p

\* value of a run of decimal digits
RECURSIVE DigitsValue(_)
DigitsValue(s) ==
    IF s = <<>> THEN 0
    ELSE 10 * DigitsValue(SubSeq(s, 1, Len(s) - 1)) + (s[Len(s)] - Char0)

AllDigits(s) == s # <<>> /\ \A i \in 1..Len(s) : IsDigit(s[i])

\* int(s): surrounding whitespace, an optional sign, decimal digits.
\* IsInt(s) is FALSE where int(s) raises ValueError.
IsInt(s) ==
    LET t == Strip(s)
    IN /\ t # <<>>
       /\ IF t[1] \in {CharMinus, CharPlus} THEN AllDigits(Tail_(t, 2))
          ELSE AllDigits(t)

IntOf(s) ==
    LET t == Strip(s)
    IN IF t[1] = CharMinus THEN 0 - DigitsValue(Tail_(t, 2))
       ELSE IF t[1] = CharPlus THEN DigitsValue(Tail_(t, 2))
       ELSE DigitsValue(t)

\* re.sub(r'#.*?\n', '\n', buffer): a '#' up to the next newline is replaced
\* by the newline; a '#' with no newline after it is left in place.
RECURSIVE StripComments(_)
StripComments(b) ==
    IF b = <<>> THEN <<>>
    ELSE IF b[1] = HASH
         THEN LET l == ReadLine(b, 0)
              IN IF l[Len(l)] = NL
                 THEN <<NL>> \o StripComments(Tail_(b, Len(l) + 1))
                 ELSE <<b[1]>> \o StripComments(Tail_(b, 2))
         ELSE <<b[1]>> \o StripComments(Tail_(b, 2))

\* re.findall(r'\d+', buffer), each match given by its value (int of a run
\* of digits never fails)
RECURSIVE FindNumbers(_)
FindNumbers(b) ==
    IF b = <<>> THEN <<>>
    ELSE IF ~IsDigit(b[1]) THEN FindNumbers(Tail_(b, 2))
    ELSE LET nd == {i \in 1..Len(b) : ~IsDigit(b[i])}
             e == IF nd = {} THEN Len(b) + 1
                  ELSE CHOOSE i \in nd : \A j \in nd : i <= j
         IN <<DigitsValue(SubSeq(b, 1, e - 1))>> \o FindNumbers(Tail_(b, e))

\* int(n / d) for n >= 0 and d # 0: the quotient truncated towards zero
TruncDiv(n, d) == IF d > 0 THEN n \div d ELSE 0 - (n \div (0 - d))

\* the rescale of one P3 / one-byte P6 component: unchanged when
\* max_value is 255
Normalize(v, mv) == IF mv # 255 THEN TruncDiv(v * 255, mv) ELSE v

---------------------------------------------------------------------------
(* The decoder.  A decoder state is the record of the locals of the call:  *)
(* pc, pos, width, height, max_value, pixels, error.  Each operator below  *)
(* is one iteration of one loop of the code (one readline), or the whole   *)
(* pixel-data phase.                                                        *)

MagicP3 == <<CharP, Char3>>
MagicP6 == <<CharP, Char6>>

Fail(d, why) == [d EXCEPT !.pc = "error", !.error = why, !.pixels = <<>>]

\* detect_ppm_format followed by the dispatch of load_ppm; load_ppm_p3 and
\* load_ppm_p6 open the file again, at offset 0
DetectStep(f, d) ==
    LET magic == SubSeq(f, 1, Min2(2, Len(f)))
    IN IF magic = MagicP3 THEN [d EXCEPT !.pc = "p3_magic", !.pos = 0]
       ELSE IF magic = MagicP6 THEN [d EXCEPT !.pc = "p6_magic", !.pos = 0]
       ELSE Fail(d, "unsupported")

\* load_ppm_p3, lines 32-41
P3MagicStep(f, d) ==
    LET raw == ReadLine(f, d.pos)
        line == Strip(raw)
        nxt == d.pos + Len(raw)
    IN IF raw = <<>> THEN Fail(d, "eof_header")
       ELSE IF line # <<>> /\ ~StartsWith(line, <<HASH>>)
            THEN IF StartsWith(line, MagicP3)
                 THEN [d EXCEPT !.pc = "p3_dims", !.pos = nxt]
                 ELSE Fail(d, "magic")
            ELSE [d EXCEPT !.pos = nxt]

\* load_ppm_p3, lines 44-53
P3DimsStep(f, d) ==
    LET raw == ReadLine(f, d.pos)
        line == Strip(raw)
        parts == Split(line)
        nxt == d.pos + Len(raw)
    IN IF raw = <<>> THEN Fail(d, "eof_header")
       ELSE IF line # <<>> /\ ~StartsWith(line, <<HASH>>) /\ Len(parts) >= 2
            THEN IF IsInt(parts[1]) /\ IsInt(parts[2])
                 THEN [d EXCEPT !.pc = "p3_maxval", !.pos = nxt,
                                !.width = IntOf(parts[1]),
                                !.height = IntOf(parts[2])]
                 ELSE Fail(d, "value")
            ELSE [d EXCEPT !.pos = nxt]

\* load_ppm_p3, lines 56-62
P3MaxValueStep(f, d) ==
    LET raw == ReadLine(f, d.pos)
        line == Strip(raw)
        nxt == d.pos + Len(raw)
    IN IF raw = <<>> THEN Fail(d, "eof_header")
       ELSE IF line # <<>> /\ ~StartsWith(line, <<HASH>>)
            THEN IF IsInt(line)
                 THEN [d EXCEPT !.pc = "p3_pixels", !.pos = nxt,
                                !.max_value = IntOf(line)]
                 ELSE Fail(d, "value")
            ELSE [d EXCEPT !.pos = nxt]

\* load_ppm_p3, lines 65-87
P3PixelsStep(f, d) ==
    LET buffer == StripComments(Tail_(f, d.pos + 1))
        numbers == FindNumbers(buffer)
        need == d.width * d.height * 3
        count == IF need > 0 THEN need \div 3 ELSE 0   \* len(range(0, need, 3))
    IN IF Len(numbers) < need THEN Fail(d, "truncated")
       ELSE IF count > 0 /\ d.max_value = 0 THEN Fail(d, "other")  \* ZeroDivisionError
       ELSE [d EXCEPT !.pc = "done", !.pos = Len(f),
                      !.pixels = [k \in 1..count |->
                          <<Normalize(numbers[3 * k - 2], d.max_value),
                            Normalize(numbers[3 * k - 1], d.max_value),
                            Normalize(numbers[3 * k], d.max_value)>>]]

\* load_ppm_p6, lines 116-119
P6MagicStep(f, d) ==
    LET raw == ReadLine(f, d.pos)
    IN IF ~StartsWith(raw, MagicP6) THEN Fail(d, "magic")
       ELSE [d EXCEPT !.pc = "p6_dims", !.pos = d.pos + Len(raw)]

\* load_ppm_p6, lines 122-129: readline returns b'' at end of file, which
\* neither starts with '#' nor has two parts, so the loop goes round again
P6DimsStep(f, d) ==
    LET raw == ReadLine(f, d.pos)
        parts == Split(Strip(raw))
        nxt == d.pos + Len(raw)
    IN IF StartsWith(raw, <<HASH>>) THEN [d EXCEPT !.pos = nxt]
       ELSE IF Len(parts) >= 2
            THEN IF IsInt(parts[1]) /\ IsInt(parts[2])
                 THEN [d EXCEPT !.pc = "p6_maxval", !.pos = nxt,
                                !.width = IntOf(parts[1]),
                                !.height = IntOf(parts[2])]
                 ELSE Fail(d, "value")
            ELSE [d EXCEPT !.pos = nxt]

\* load_ppm_p6, lines 132-136
P6MaxValueStep(f, d) ==
    LET raw == ReadLine(f, d.pos)
        nxt == d.pos + Len(raw)
    IN IF StartsWith(raw, <<HASH>>) THEN [d EXCEPT !.pos = nxt]
       ELSE IF IsInt(raw)
            THEN [d EXCEPT !.pc = "p6_pixels", !.pos = nxt,
                           !.max_value = IntOf(raw)]
            ELSE Fail(d, "value")

\* struct.unpack('>H', two bytes)
UnpackH(b) == b[1] * 256 + b[2]

\* load_ppm_p6, lines 139-177
P6PixelsStep(f, d) ==
    LET total_bytes == d.width * d.height * 3
        rest == Tail_(f, d.pos + 1)
        \* f.read(n): at most n bytes; everything when n is negative
        pixel_data == IF total_bytes < 0 THEN rest
                      ELSE SubSeq(rest, 1, Min2(total_bytes, Len(rest)))
        n == Len(pixel_data)
        bytes_per_component == IF d.max_value < 256 THEN 1 ELSE 2
        step == 3 * bytes_per_component
        count == (n + step - 1) \div step            \* len(range(0, n, step))
    IN IF n < total_bytes THEN Fail(d, "truncated")
       ELSE IF n % step # 0 THEN Fail(d, "other")   \* IndexError, struct.error
       ELSE IF bytes_per_component = 1
            THEN IF count > 0 /\ d.max_value = 0 THEN Fail(d, "other")
                 ELSE [d EXCEPT !.pc = "done", !.pos = d.pos + n,
                          !.pixels = [k \in 1..count |->
                              <<Normalize(pixel_data[3 * k - 2], d.max_value),
                                Normalize(pixel_data[3 * k - 1], d.max_value),
                                Normalize(pixel_data[3 * k], d.max_value)>>]]
            ELSE [d EXCEPT !.pc = "done", !.pos = d.pos + n,
                     !.pixels = [k \in 1..count |->
                         <<TruncDiv(UnpackH(SubSeq(pixel_data, 6 * k - 5, 6 * k - 4)) * 255, d.max_value),
                           TruncDiv(UnpackH(SubSeq(pixel_data, 6 * k - 3, 6 * k - 2)) * 255, d.max_value),
                           TruncDiv(UnpackH(SubSeq(pixel_data, 6 * k - 1, 6 * k)) * 255, d.max_value)>>]]

\* one step of load_ppm from decoder state d
DecodeStep(f, d) ==
    CASE d.pc = "detect" -> DetectStep(f, d)
      [] d.pc = "p3_magic" -> P3MagicStep(f, d)
      [] d.pc = "p3_dims" -> P3DimsStep(f, d)
      [] d.pc = "p3_maxval" -> P3MaxValueStep(f, d)
      [] d.pc = "p3_pixels" -> P3PixelsStep(f, d)
      [] d.pc = "p6_magic" -> P6MagicStep(f, d)
      [] d.pc = "p6_dims" -> P6DimsStep(f, d)
      [] d.pc = "p6_maxval" -> P6MaxValueStep(f, d)
      [] d.pc = "p6_pixels" -> P6PixelsStep(f, d)
      [] OTHER -> d

Start == [pc |-> "detect", pos |-> 0, width |-> 0, height |-> 0,
          max_value |-> 0, pixels |-> <<>>, error |-> ""]

Terminal(d) == d.pc \in {"done", "error"}

\* load_ppm(f) run to its end: the final decoder state, or, when a loop of
\* the code goes round without changing anything, that state with pc "spin"
RECURSIVE RunFrom(_, _)
RunFrom(f, d) ==
    IF Terminal(d) THEN d
    ELSE LET e == DecodeStep(f, d)
         IN IF e = d THEN [d EXCEPT !.pc = "spin"] ELSE RunFrom(f, e)

LoadPpm(f) == RunFrom(f, Start)

---------------------------------------------------------------------------
(* The input files.  An input is described by a record                      *)
(*   fmt    "P3" or "P6"                                                    *)
(*   w, h, mv   the numbers written in the header                           *)
(*   pool   which sample values the pixel data holds                        *)
(*   split  whether width and height are on different lines                 *)
(*   cat    where a comment is inserted: 0 nowhere, 1..4 after the magic,   *)
(*          width, height, maxValue token, 5 after the first sample, 6      *)
(*          after the last sample, as the last line without a newline       *)
(*   cown   whether the comment is on a line of its own, or on the line of  *)
(*          the token before it                                             *)
(*   hdr    how many header tokens the file holds (4: a complete header)    *)
(*   drop   how many samples (P3) or bytes (P6) are missing at the end      *)
(* and FileOf(i) is the content of that file, written the way               *)
(* create_test_image.py writes a P3 file: one pixel per line.               *)

MaxWidth == 2
MaxHeight == 2
MaxDrop == 2

MaxValues == {255, 100, 65535, 0, -2}

Pools == << <<0, 50, 100, 255>>, <<7, 128, 200, 1>>, <<300, 65535, 256, 1000>> >>

\* the decimal digits of n >= 0
RECURSIVE DecNat(_)
DecNat(n) == IF n < 10 THEN <<Char0 + n>>
             ELSE DecNat(n \div 10) \o <<Char0 + (n % 10)>>

Dec(n) == IF n < 0 THEN <<CharMinus>> \o DecNat(0 - n) ELSE DecNat(n)

CommentText == <<HASH, SP, Char9>>        \* "# 9"

NSamples(i) == i.w * i.h * 3

\* how many bytes hold one sample in a P6 file with this maxValue
BytesPerComponent(mv) == IF mv < 256 THEN 1 ELSE 2

\* the k-th sample value the complete file holds (k = 1 ..)
SampleOf(i, k) ==
    LET v == Pools[i.pool][((k - 1) % 4) + 1]
    IN IF i.fmt = "P3" THEN v
       ELSE IF BytesPerComponent(i.mv) = 1 THEN v % 256 ELSE v % 65536

\* what follows header token t (1 magic, 2 width, 3 height, 4 maxValue)
HeaderSep(i, t) ==
    IF i.cat = t
    THEN (IF i.cown THEN <<NL>> ELSE <<SP>>) \o CommentText \o <<NL>>
    ELSE IF t = 2 /\ ~i.split THEN <<SP>> ELSE <<NL>>

HeaderToken(i, t) ==
    CASE t = 1 -> (IF i.fmt = "P3" THEN MagicP3 ELSE MagicP6)
      [] t = 2 -> Dec(i.w)
      [] t = 3 -> Dec(i.h)
      [] t = 4 -> Dec(i.mv)

RECURSIVE HeaderText(_, _)
HeaderText(i, t) ==
    IF t = 0 THEN <<>>
    ELSE HeaderText(i, t - 1) \o HeaderToken(i, t) \o HeaderSep(i, t)

\* what follows the k-th of n samples of a P3 file
SampleSep(i, k, n) ==
    IF i.cat = 5 /\ k = 1
    THEN (IF i.cown THEN <<NL>> ELSE <<SP>>) \o CommentText \o <<NL>>
    ELSE IF i.cat = 6 /\ k = n
    THEN (IF i.cown THEN <<NL>> ELSE <<SP>>) \o CommentText
    ELSE IF k % 3 = 0 THEN <<NL>> ELSE <<SP>>

RECURSIVE P3Data(_, _, _)
P3Data(i, k, n) ==
    IF k = 0 THEN <<>>
    ELSE P3Data(i, k - 1, n) \o Dec(SampleOf(i, k)) \o SampleSep(i, k, n)

RECURSIVE P6Data(_, _)
P6Data(i, k) ==
    IF k = 0 THEN <<>>
    ELSE P6Data(i, k - 1) \o
         (IF BytesPerComponent(i.mv) = 1 THEN <<SampleOf(i, k)>>
          ELSE <<SampleOf(i, k) \div 256, SampleOf(i, k) % 256>>)

\* the number of samples (P3) or bytes (P6) of pixel data in the file
DataUnits(i) ==
    IF i.hdr < 4 THEN 0
    ELSE IF i.fmt = "P3" THEN Max2(0, NSamples(i) - i.drop)
    ELSE Max2(0, NSamples(i) * BytesPerComponent(i.mv) - i.drop)

FileOf(i) ==
    HeaderText(i, i.hdr) \o
    (IF i.hdr < 4 THEN <<>>
     ELSE IF i.fmt = "P3" THEN P3Data(i, DataUnits(i), DataUnits(i))
     ELSE SubSeq(P6Data(i, NSamples(i)), 1, DataUnits(i)))

Inputs ==
    {i \in [fmt : {"P3", "P6"}, w : 0..MaxWidth, h : 0..MaxHeight,
            mv : MaxValues, pool : 1..Len(Pools), split : BOOLEAN,
            cat : 0..6, cown : BOOLEAN, hdr : 1..4, drop : 0..MaxDrop] :
        /\ i.cat = 0 => i.cown
        /\ i.cat > i.hdr => i.cat = 0 \/ (i.hdr = 4 /\ i.cat \in {5, 6})
        /\ i.cat \in {5, 6} => i.fmt = "P3" /\ DataUnits(i) >= 1
        /\ i.cat = 4 => i.fmt = "P3"
        /\ i.hdr < 4 => i.drop = 0
        /\ i.hdr < 3 => ~i.split
        /\ i.drop <= NSamples(i) * (IF i.fmt = "P3" THEN 1 ELSE BytesPerComponent(i.mv))}

---------------------------------------------------------------------------
(* The decoder as a state machine: load_ppm(file) for one input file.      *)

Dec_ == [pc |-> pc, pos |-> pos, width |-> width, height |-> height,
         max_value |-> max_value, pixels |-> pixels, error |-> error]

Becomes(d) ==
    /\ pc' = d.pc
    /\ pos' = d.pos
    /\ width' = d.width
    /\ height' = d.height
    /\ max_value' = d.max_value
    /\ pixels' = d.pixels
    /\ error' = d.error
    /\ UNCHANGED <<inp, file>>
    /\ UNCHANGED filVars
    /\ UNCHANGED winVars

FilterIdle ==
    /\ op = "idle"
    /\ image_data = <<>>
    /\ image_width = 0
    /\ image_height = 0
    /\ structuring_element = <<>>
    /\ result = <<>>
    /\ kernel_size = 0
    /\ threshold = 0
    /\ heap = <<>>
    /\ returned = 0
    /\ original_image_data = <<>>
    /\ applied = <<>>
    /\ se_text = <<>>
    /\ loaded = <<>>

Init ==
    /\ inp \in Inputs
    /\ file = FileOf(inp)
    /\ pc = Start.pc
    /\ pos = Start.pos
    /\ width = Start.width
    /\ height = Start.height
    /\ max_value = Start.max_value
    /\ pixels = Start.pixels
    /\ error = Start.error
    /\ FilterIdle

DetectFormat == pc = "detect" /\ Becomes(DetectStep(file, Dec_))
P3ReadMagic == pc = "p3_magic" /\ Becomes(P3MagicStep(file, Dec_))
P3ReadDims == pc = "p3_dims" /\ Becomes(P3DimsStep(file, Dec_))
P3ReadMaxValue == pc = "p3_maxval" /\ Becomes(P3MaxValueStep(file, Dec_))
P3ReadPixels == pc = "p3_pixels" /\ Becomes(P3PixelsStep(file, Dec_))
P6ReadMagic == pc = "p6_magic" /\ Becomes(P6MagicStep(file, Dec_))
P6ReadDims == pc = "p6_dims" /\ Becomes(P6DimsStep(file, Dec_))
P6ReadMaxValue == pc = "p6_maxval" /\ Becomes(P6MaxValueStep(file, Dec_))
P6ReadPixels == pc = "p6_pixels" /\ Becomes(P6PixelsStep(file, Dec_))

Next ==
    \/ DetectFormat
    \/ P3ReadMagic
    \/ P3ReadDims
    \/ P3ReadMaxValue
    \/ P3ReadPixels
    \/ P6ReadMagic
    \/ P6ReadDims
    \/ P6ReadMaxValue
    \/ P6ReadPixels

Spec == Init /\ [][Next]_vars

---------------------------------------------------------------------------
(* Properties of the decoder.                                               *)

\* what the caller of load_ppm gets: the returned tuple, or a PPMError
Outcome(d) ==
    IF d.pc = "done"
    THEN [ok |-> TRUE, width |-> d.width, height |-> d.height,
          max_value |-> d.max_value, pixels |-> d.pixels]
    ELSE [ok |-> FALSE, width |-> 0, height |-> 0, max_value |-> 0,
          pixels |-> <<>>]

\* the file has the whole header, width and height on one line, no comment
PlainHeader(i) == i.hdr = 4 /\ ~i.split /\ i.cat = 0

\* a complete file of at least one pixel that declares a positive maxValue
ValidFile(i) == i.hdr = 4 /\ i.drop = 0 /\ i.w >= 1 /\ i.h >= 1 /\ i.mv > 0

\* the samples or bytes the header of input i asks for
RequiredUnits(i) ==
    NSamples(i) * (IF i.fmt = "P3" THEN 1 ELSE BytesPerComponent(i.mv))

\* floor(n / d) for n >= 0, d # 0
FloorDiv(n, d) == IF d > 0 THEN n \div d ELSE 0 - ((n + (0 - d) - 1) \div (0 - d))

\* the channel the specification asks for from sample v
Rescaled(v, mv) == IF mv = 255 THEN v ELSE FloorDiv(v * 255, mv)

\* C1: whenever load_ppm returns, the pixel list has width*height elements
C1_PixelCountMatchesHeader ==
    pc = "done" => Len(pixels) = width * height

\* C2: every channel of every returned pixel is an integer in 0..255
\* (stated for the files that declare a positive maxValue)
C2_ChannelsAreEightBit ==
    (pc = "done" /\ max_value > 0) =>
        \A k \in 1..Len(pixels) : \A c \in 1..3 : pixels[k][c] \in 0..255

\* C3: a file with a complete header whose pixel data is shorter than
\* width*height*3 tokens (P3) or width*height*3*bytesPerComponent bytes (P6)
\* is never decoded: the call does not return a buffer
C3_ShortPixelDataFails ==
    (PlainHeader(inp) /\ DataUnits(inp) < RequiredUnits(inp)) => pc # "done"

\* the next iteration of the loop the call is in leaves every local and the
\* file offset as they are, so the loop never ends
Spinning == pc \notin {"done", "error"} /\ DecodeStep(file, Dec_) = Dec_

\* C4: on a file that ends before width, height and maxValue have been
\* read, the call returns no buffer and terminates with an error: it never
\* reaches a loop iteration that changes nothing
C4_CutHeaderTerminatesWithError ==
    inp.hdr < 4 => pc # "done" /\ ~Spinning

\* C5: a decode that returns a buffer has read a positive maxValue (stated
\* for the decodes that return at least one pixel)
C5_NonPositiveMaxValueFails ==
    (pc = "done" /\ Len(pixels) >= 1) => max_value > 0

\* C6: on a complete plain file with a positive maxValue, every sample v of
\* the file is decoded, to v when maxValue = 255 and to floor(v*255/maxValue)
\* otherwise
C6_EverySampleRescaled ==
    (pc = "done" /\ PlainHeader(inp) /\ inp.drop = 0 /\ inp.mv > 0) =>
        \A k \in 1..NSamples(inp) :
            LET px == ((k - 1) \div 3) + 1
                ch == ((k - 1) % 3) + 1
            IN /\ px \in DOMAIN pixels
               /\ pixels[px][ch] = Rescaled(SampleOf(inp, k), inp.mv)

\* C7: a file with width and height on different lines decodes to what the
\* file with the same tokens and width and height on one line decodes to
C7_SplitDimensionsDecodeTheSame ==
    (inp.split /\ inp.cat = 0 /\ ValidFile(inp) /\ pc \in {"done", "error"}) =>
        Outcome(Dec_) = Outcome(LoadPpm(FileOf([inp EXCEPT !.split = FALSE])))

\* C8: a comment inserted between two tokens of a valid P3 file that decodes
\* does not change what the file decodes to (stated for the comments that
\* leave width and height on one line: after the magic, height or maxValue
\* token, or in the pixel data)
C8_CommentsAreTransparent ==
    LET plain == LoadPpm(FileOf([inp EXCEPT !.cat = 0, !.cown = TRUE]))
    IN (inp.fmt = "P3" /\ inp.cat \in {1, 3, 4, 5, 6} /\ ~inp.split
        /\ ValidFile(inp) /\ plain.pc = "done" /\ pc \in {"done", "error"}) =>
           Outcome(Dec_) = Outcome(plain)

---------------------------------------------------------------------------
(* The morphology filters of image_filters.py.  An image is the flat,      *)
(* row-major list of (R, G, B) triples the filters take, with its width    *)
(* and height; a structuring element is a list of rows of 0/1.             *)

\* an image has at most MaxImagePixels pixels, a structuring element at most
\* MaxElementCells cells, in every shape that allows
MaxImagePixels == 4
MaxElementCells == 6

\* the channel values of the images drawn: binary images, as the filters
\* assume (every pixel has R = G = B)
Levels == {0, 255}

Images(w, h) == [1..(w * h) -> {<<v, v, v>> : v \in Levels}]

Elements(rows, cols) == [1..rows -> [1..cols -> {0, 1}]]

\* one visit of an active position by apply_erosion (lines 255-261): inside
\* the image the running minimum takes the red channel r, outside it
\* becomes 0
ErodeCellSkipsOutside(min_v, inside, r) ==
    IF inside THEN Min2(min_v, r) ELSE min_v

ErodeCell(min_v, inside, r) ==
    IF inside THEN Min2(min_v, r) ELSE 0

\* one visit of an active position by apply_dilation (lines 213-216):
\* inside the image the running maximum takes the red channel r, outside
\* it is left alone
DilateCellZeroesOutside(max_v, inside, r) ==
    IF inside THEN Max2(max_v, r) ELSE 0

DilateCell(max_v, inside, r) ==
    IF inside THEN Max2(max_v, r) ELSE max_v

SeHeight(se) == Len(se)
SeWidth(se) == IF Len(se) > 0 THEN Len(se[1]) ELSE 0

\* the loops over se_y, se_x of apply_erosion for the output pixel (x, y):
\* the positions k = 1 .. se_height*se_width are visited in row-major order,
\* from the running value acc
RECURSIVE ErosionScan(_, _, _, _, _, _, _, _)
ErosionScan(img, w, h, se, x, y, k, acc) ==
    IF k > SeHeight(se) * SeWidth(se) THEN acc
    ELSE LET se_y == (k - 1) \div SeWidth(se)
             se_x == (k - 1) % SeWidth(se)
             img_y == y + se_y - (SeHeight(se) \div 2)
             img_x == x + se_x - (SeWidth(se) \div 2)
             inside == 0 <= img_y /\ img_y < h /\ 0 <= img_x /\ img_x < w
             r == IF inside THEN img[img_y * w + img_x + 1][1] ELSE 0
         IN ErosionScan(img, w, h, se, x, y, k + 1,
                IF se[se_y + 1][se_x + 1] = 1 THEN ErodeCell(acc, inside, r)
                ELSE acc)

RECURSIVE DilationScan(_, _, _, _, _, _, _, _)
DilationScan(img, w, h, se, x, y, k, acc) ==
    IF k > SeHeight(se) * SeWidth(se) THEN acc
    ELSE LET se_y == (k - 1) \div SeWidth(se)
             se_x == (k - 1) % SeWidth(se)
             img_y == y + se_y - (SeHeight(se) \div 2)
             img_x == x + se_x - (SeWidth(se) \div 2)
             inside == 0 <= img_y /\ img_y < h /\ 0 <= img_x /\ img_x < w
             r == IF inside THEN img[img_y * w + img_x + 1][1] ELSE 0
         IN DilationScan(img, w, h, se, x, y, k + 1,
                IF se[se_y + 1][se_x + 1] = 1 THEN DilateCell(acc, inside, r)
                ELSE acc)

\* apply_erosion(image_data, width, height, structuring_element)
apply_erosion(img, w, h, se) ==
    [i \in 1..(w * h) |->
        LET m == ErosionScan(img, w, h, se, (i - 1) % w, (i - 1) \div w, 1, 255)
        IN <<m, m, m>>]

\* apply_dilation(image_data, width, height, structuring_element)
apply_dilation(img, w, h, se) ==
    [i \in 1..(w * h) |->
        LET m == DilationScan(img, w, h, se, (i - 1) % w, (i - 1) \div w, 1, 0)
        IN <<m, m, m>>]

---------------------------------------------------------------------------
(* The window filters of image_filters.py: smoothing, median, Sobel, and   *)
(* the pointwise binarization.                                             *)

\* `for y in range(height): for x in range(width)` (lines 27-28, 72-73,
\* 137-138): the number of pixels the two loops visit, one output each
InteriorCount(w, h) == (w - 1) * (h - 1)

PixelCount(w, h) == w * h

\* `if kernel_size % 2 == 0: kernel_size += 1` (lines 21-22, 66-67)
OddKernelBelow(k) == IF k % 2 = 0 THEN k - 1 ELSE k

OddKernel(k) == IF k % 2 = 0 THEN k + 1 ELSE k

\* the offsets (ky, kx) of a window of half-width offset, in the order the
\* two loops visit them (lines 32-33, 78-79, 142-143)
WindowOffsets(offset) ==
    [n \in 1..((2 * offset + 1) * (2 * offset + 1)) |->
        <<((n - 1) \div (2 * offset + 1)) - offset,
          ((n - 1) % (2 * offset + 1)) - offset>>]

\* the offsets of the window of pixel (x, y) that fall inside the image
\* (lines 37, 83, 147), in visiting order
InBounds(w, h, x, y, offset) ==
    SelectSeq(WindowOffsets(offset),
              LAMBDA c : /\ 0 <= y + c[1] /\ y + c[1] < h
                         /\ 0 <= x + c[2] /\ x + c[2] < w)

\* the values of channel ch the window of pixel (x, y) collects
\* (`idx = ny * width + nx`, lines 38-39, 84-85)
WindowValues(img, w, h, x, y, offset, ch) ==
    LET cells == InBounds(w, h, x, y, offset)
    IN [n \in 1..Len(cells) |->
           img[(y + cells[n][1]) * w + (x + cells[n][2]) + 1][ch]]

RECURSIVE SumSeq(_)
SumSeq(s) == IF s = <<>> THEN 0 ELSE Head(s) + SumSeq(Tail(s))

\* `int(r_sum / count)` (lines 45-47): the quotient of two non-negative
\* integers, truncated; count is never 0, the pixel itself is in bounds
MeanCeil(values) == (SumSeq(values) + Len(values) - 1) \div Len(values)

Mean(values) == TruncDiv(SumSeq(values), Len(values))

\* `values.sort(); values[len(values) // 2]` (lines 90-97)
LowerMedian(values) ==
    SortSeq(values, LAMBDA a, b : a < b)[(Len(values) - 1) \div 2 + 1]

Median(values) ==
    SortSeq(values, LAMBDA a, b : a < b)[Len(values) \div 2 + 1]

\* apply_averaging_filter(image_data, width, height, kernel_size)
apply_averaging_filter(img, w, h, k) ==
    [i \in 1..PixelCount(w, h) |->
        [ch \in 1..3 |->
            Mean(WindowValues(img, w, h, (i - 1) % w, (i - 1) \div w,
                              OddKernel(k) \div 2, ch))]]

\* apply_median_filter(image_data, width, height, kernel_size)
apply_median_filter(img, w, h, k) ==
    [i \in 1..PixelCount(w, h) |->
        [ch \in 1..3 |->
            Median(WindowValues(img, w, h, (i - 1) % w, (i - 1) \div w,
                                OddKernel(k) \div 2, ch))]]

\* 1000 * (0.299 r + 0.587 g + 0.114 b), exactly
LumaMilli(p) == 299 * p[1] + 587 * p[2] + 114 * p[3]

\* the grey levels v for which the double-precision sum
\* 0.299 * v + 0.587 * v + 0.114 * v comes out just below v
GreyFallsShort ==
    {1, 2, 4, 8, 11, 13, 16, 22, 26, 27, 32, 39, 44,
     51, 52, 54, 57, 59, 61, 64, 78, 81, 88, 91, 95, 101,
     102, 104, 108, 114, 115, 118, 122, 127, 128, 143, 149, 156, 157,
     162, 169, 175, 176, 182, 183, 190, 195, 202, 203, 204, 208, 209,
     216, 223, 225, 228, 230, 235, 236, 239, 241, 244, 249, 251, 254}

\* `int(0.299 * r + 0.587 * g + 0.114 * b)` (lines 119, 172).  The sum is
\* computed in double precision: when the exact sum is not an integer it
\* is at least 0.001 away from one and the truncation is the exact floor;
\* when a grey pixel's sum, exactly v, comes out just below v, the
\* truncation is v - 1.  Defined for grey pixels and for pixels whose exact
\* sum is not an integer.
Luma(p) ==
    IF p[1] = p[2] /\ p[2] = p[3] /\ p[1] \in GreyFallsShort
    THEN p[1] - 1
    ELSE LumaMilli(p) \div 1000

\* the Sobel kernels (lines 123-133)
sobel_x == <<<<-1, 0, 1>>, <<-2, 0, 2>>, <<-1, 0, 1>>>>
sobel_y == <<<<-1, -2, -1>>, <<0, 0, 0>>, <<1, 2, 1>>>>

\* gx or gy of pixel (x, y): the sum over the in-bounds neighbours of
\* gray[idx] * kernel[ky + 1][kx + 1] (lines 142-151)
Gradient(gray, w, h, x, y, kernel) ==
    LET cells == InBounds(w, h, x, y, 1)
    IN SumSeq([n \in 1..Len(cells) |->
                  gray[(y + cells[n][1]) * w + (x + cells[n][2]) + 1]
                      * kernel[cells[n][1] + 2][cells[n][2] + 2]])

\* `min(255, max(0, int(math.sqrt(gx * gx + gy * gy))))` (lines 154-155):
\* the integer part of the root, at most 255
Magnitude(gx, gy) ==
    IF gx * gx + gy * gy >= 255 * 255 THEN 255
    ELSE CHOOSE m \in 0..254 :
             m * m <= gx * gx + gy * gy /\ gx * gx + gy * gy < (m + 1) * (m + 1)

\* apply_sobel_filter(image_data, width, height)
apply_sobel_filter(img, w, h) ==
    LET gray == [i \in 1..Len(img) |-> Luma(img[i])]
    IN [i \in 1..PixelCount(w, h) |->
           LET m == Magnitude(
                        Gradient(gray, w, h, (i - 1) % w, (i - 1) \div w, sobel_x),
                        Gradient(gray, w, h, (i - 1) % w, (i - 1) \div w, sobel_y))
           IN <<m, m, m>>]

\* rgb_to_binary(image_data, threshold)
rgb_to_binary(img, thr) ==
    [i \in 1..Len(img) |->
        IF Luma(img[i]) >= thr THEN <<255, 255, 255>> ELSE <<0, 0, 0>>]

DecoderIdle ==
    /\ inp = <<>>
    /\ file = <<>>
    /\ pc = "idle"
    /\ pos = 0
    /\ width = 0
    /\ height = 0
    /\ max_value = 0
    /\ pixels = <<>>
    /\ error = ""

WindowIdle ==
    /\ original_image_data = <<>>
    /\ applied = <<>>
    /\ se_text = <<>>
    /\ loaded = <<>>

\* `result = []` (lines 24, 69, 135, 173, 201, 245): every filter builds its
\* output in a list object of its own, which no object alive is
InputList(hp) == 1

NewList(hp) == Len(hp) + 1

\* the heap once the list object id holds px
Store(hp, id, px) ==
    IF id > Len(hp) THEN Append(hp, px) ELSE [hp EXCEPT ![id] = px]

\* the end of a filter call: `return result`, with the output px appended
\* to the list the filter made
Returns(name, px) ==
    /\ op' = name
    /\ result' = px
    /\ returned' = NewList(heap)
    /\ heap' = Store(heap, NewList(heap), px)
    /\ UNCHANGED <<image_data, image_width, image_height, structuring_element,
                   kernel_size, threshold>>
    /\ UNCHANGED decVars
    /\ UNCHANGED winVars

\* the arguments of one filter call, before the call: the pixel buffer is
\* list object 1, the structuring element list object 2
FilterInit ==
    /\ DecoderIdle
    /\ WindowIdle
    /\ op = "idle"
    /\ image_width \in 1..MaxImagePixels
    /\ image_height \in 1..MaxImagePixels
    /\ image_width * image_height <= MaxImagePixels
    /\ image_data \in Images(image_width, image_height)
    /\ \E rows \in 1..MaxElementCells, cols \in 1..MaxElementCells :
           /\ rows * cols <= MaxElementCells
           /\ structuring_element \in Elements(rows, cols)
    /\ result = <<>>
    /\ kernel_size = 3
    /\ threshold = 128
    /\ heap = <<image_data, structuring_element>>
    /\ returned = 0

ApplyDilation ==
    /\ op = "idle"
    /\ Returns("dilation", apply_dilation(image_data, image_width, image_height,
                                          structuring_element))

ApplyErosion ==
    /\ op = "idle"
    /\ Returns("erosion", apply_erosion(image_data, image_width, image_height,
                                        structuring_element))

FilterNext ==
    \/ ApplyDilation
    \/ ApplyErosion

FilterSpec == FilterInit /\ [][FilterNext]_vars

---------------------------------------------------------------------------
(* Properties of the morphology filters.                                    *)

\* the structuring-element positions (se_y, se_x), 0-based, that are active
Active(se) ==
    {q \in (0..(SeHeight(se) - 1)) \X (0..(SeWidth(se) - 1)) :
        se[q[1] + 1][q[2] + 1] = 1}

\* the image coordinates (img_y, img_x) position q maps to from pixel (x, y),
\* with the anchor at (rows \div 2, cols \div 2)
MapsTo(se, x, y, q) ==
    <<y + q[1] - (SeHeight(se) \div 2), x + q[2] - (SeWidth(se) \div 2)>>

InImage(c, w, h) == 0 <= c[1] /\ c[1] < h /\ 0 <= c[2] /\ c[2] < w

\* the source values under the active positions of pixel (x, y) that map
\* inside the image
ValuesUnder(img, w, h, se, x, y) ==
    {img[MapsTo(se, x, y, q)[1] * w + MapsTo(se, x, y, q)[2] + 1][1] :
        q \in {a \in Active(se) : InImage(MapsTo(se, x, y, a), w, h)}}

Overhangs(se, w, h, x, y) ==
    \E q \in Active(se) : ~InImage(MapsTo(se, x, y, q), w, h)

SetMin(S) == CHOOSE m \in S : \A n \in S : m <= n
SetMax(S) == CHOOSE m \in S : \A n \in S : m >= n

Gray(v) == <<v, v, v>>

\* C9: after apply_erosion, a pixel with an active position outside the image
\* is (0,0,0) whatever lies under its other active positions; every other
\* pixel is the minimum of the source values under its active positions
\* (255, the value the scan starts from, when no position is active)
C9_ErosionBorderPolicy ==
    op = "erosion" =>
        /\ Len(result) = image_width * image_height
        /\ \A x \in 0..(image_width - 1), y \in 0..(image_height - 1) :
            LET under == ValuesUnder(image_data, image_width, image_height,
                                     structuring_element, x, y)
            IN result[y * image_width + x + 1] =
                IF Overhangs(structuring_element, image_width, image_height, x, y)
                THEN Gray(0)
                ELSE IF under = {} THEN Gray(255)
                ELSE Gray(SetMin(under))

\* an erosion in which one pixel has an active position outside the image
\* and a 255 under another active position, and comes out 0, and another
\* pixel has every active position inside, over 255, and comes out 255
C9_Witness ==
    /\ op = "erosion"
    /\ \E x \in 0..(image_width - 1), y \in 0..(image_height - 1) :
        /\ Overhangs(structuring_element, image_width, image_height, x, y)
        /\ 255 \in ValuesUnder(image_data, image_width, image_height,
                               structuring_element, x, y)
        /\ result[y * image_width + x + 1] = Gray(0)
    /\ \E x \in 0..(image_width - 1), y \in 0..(image_height - 1) :
        /\ ~Overhangs(structuring_element, image_width, image_height, x, y)
        /\ ValuesUnder(image_data, image_width, image_height,
                       structuring_element, x, y) = {255}
        /\ result[y * image_width + x + 1] = Gray(255)

\* C10: after apply_dilation, every pixel is the maximum of the source values
\* under its active positions that map inside the image, and (0,0,0) when
\* none of them does; the positions outside change nothing
C10_DilationBorderPolicy ==
    op = "dilation" =>
        /\ Len(result) = image_width * image_height
        /\ \A x \in 0..(image_width - 1), y \in 0..(image_height - 1) :
            LET under == ValuesUnder(image_data, image_width, image_height,
                                     structuring_element, x, y)
            IN result[y * image_width + x + 1] =
                IF under = {} THEN Gray(0) ELSE Gray(SetMax(under))

\* a dilation in which one pixel has an active position outside the image
\* and a 255 under another active position, and comes out 255, and another
\* pixel has active positions, all of them outside, and comes out 0
C10_Witness ==
    /\ op = "dilation"
    /\ \E x \in 0..(image_width - 1), y \in 0..(image_height - 1) :
        /\ Overhangs(structuring_element, image_width, image_height, x, y)
        /\ 255 \in ValuesUnder(image_data, image_width, image_height,
                               structuring_element, x, y)
        /\ result[y * image_width + x + 1] = Gray(255)
    /\ \E x \in 0..(image_width - 1), y \in 0..(image_height - 1) :
        /\ Active(structuring_element) # {}
        /\ \A q \in Active(structuring_element) :
               ~InImage(MapsTo(structuring_element, x, y, q),
                        image_width, image_height)
        /\ result[y * image_width + x + 1] = Gray(0)


---------------------------------------------------------------------------
(* The morphology buttons of the main window (main.py).  The window keeps  *)
(* the image on display in image_data and the image as loaded in           *)
(* original_image_data; each button replaces image_data by the filter's    *)
(* output.  The element is the one the window starts with.                 *)

\* the image is a binary pattern the size of the element with a uniform
\* margin of up to MaxMargin pixels around it
MaxMargin == 1

\* the orders in which the user presses the buttons
PressOrders ==
    {<<"dilation", "erosion", "dilation", "erosion">>, <<"erosion", "dilation">>}

IsPrefix(s, t) == Len(s) <= Len(t) /\ SubSeq(t, 1, Len(s)) = s

\* MainWindow.structuring_element as __init__ sets it, which is also what
\* update_structuring_element parses from the text the field starts with
DefaultElement == <<<<1, 1, 1>>, <<1, 1, 1>>, <<1, 1, 1>>>>

\* the text se_text starts with (line 300): "1 1 1\n1 1 1\n1 1 1"
DefaultText ==
    <<Char0 + 1, SP, Char0 + 1, SP, Char0 + 1, NL,
      Char0 + 1, SP, Char0 + 1, SP, Char0 + 1, NL,
      Char0 + 1, SP, Char0 + 1, SP, Char0 + 1>>

\* s.split('\n'): the pieces between the newlines, empty ones included
RECURSIVE SplitLines(_)
SplitLines(s) ==
    LET nls == {i \in 1..Len(s) : s[i] = NL}
    IN IF nls = {} THEN <<s>>
       ELSE LET e == CHOOSE i \in nls : \A j \in nls : i <= j
            IN <<SubSeq(s, 1, e - 1)>> \o SplitLines(Tail_(s, e + 1))

\* `lines = [line.strip() for line in text.strip().split('\n') if line.strip()]`
\* (line 482)
TextLines(text) ==
    LET parts == SplitLines(Strip(text))
        kept == SelectSeq(parts, LAMBDA l : Strip(l) # <<>>)
    IN [n \in 1..Len(kept) |-> Strip(kept[n])]

\* `[int(x) for x in line.split()]` raises ValueError on some token of
\* some line (line 485)
ParseFails(text) ==
    LET lines == TextLines(text)
    IN \E n \in 1..Len(lines) :
        LET row == Split(lines[n])
        IN \E t \in 1..Len(row) : ~IsInt(row[t])

\* se, once every line is parsed (lines 483-486)
ParsedRows(text) ==
    LET lines == TextLines(text)
    IN [n \in 1..Len(lines) |->
        LET row == Split(lines[n])
        IN [t \in 1..Len(row) |-> IntOf(row[t])]]

\* `len(se) > 0 and all(len(row) == len(se[0]) for row in se)` (line 487)
AcceptedWhenNotEmpty(se) == Len(se) > 0

Accepted(se) ==
    Len(se) > 0 /\ \A r \in 1..Len(se) : Len(se[r]) = Len(se[1])

\* MainWindow.structuring_element after update_structuring_element() with
\* text in the field: the rows parsed when they are accepted; else, and on
\* any exception (the bare `except`), the element as it was
update_structuring_element(text, se) ==
    IF ParseFails(text) THEN se
    ELSE LET rows == ParsedRows(text)
         IN IF Accepted(rows) THEN rows ELSE se

\* the image of width cw + 2m and height ch + 2m with core in the middle
\* and level bg in the margin of m pixels
Framed(core, cw, ch, m, bg) ==
    [i \in 1..((cw + 2 * m) * (ch + 2 * m)) |->
        LET x == (i - 1) % (cw + 2 * m)
            y == (i - 1) \div (cw + 2 * m)
        IN IF m <= x /\ x < m + cw /\ m <= y /\ y < m + ch
           THEN core[(y - m) * cw + (x - m) + 1]
           ELSE <<bg, bg, bg>>]

\* the window after load_ppm_file (lines 365-368)
WindowInit ==
    /\ DecoderIdle
    /\ op = "idle"
    /\ result = <<>>
    /\ kernel_size = 3
    /\ threshold = 128
    /\ heap = <<>>
    /\ returned = 0
    /\ structuring_element = DefaultElement
    /\ \E m \in 0..MaxMargin, bg \in Levels :
        \E core \in Images(SeWidth(DefaultElement), SeHeight(DefaultElement)) :
            /\ image_width = SeWidth(DefaultElement) + 2 * m
            /\ image_height = SeHeight(DefaultElement) + 2 * m
            /\ image_data = Framed(core, SeWidth(DefaultElement),
                                   SeHeight(DefaultElement), m, bg)
    /\ original_image_data = image_data
    /\ applied = <<>>
    /\ se_text = DefaultText
    /\ loaded = <<image_width, image_height, image_data>>

\* a button of the window: image_data becomes the filter's output
Pressed(name, px) ==
    /\ \E o \in PressOrders : IsPrefix(Append(applied, name), o)
    /\ image_data # <<>>
    /\ image_data' = px
    /\ applied' = Append(applied, name)
    /\ UNCHANGED <<op, image_width, image_height, structuring_element, result,
                   kernel_size, threshold, heap, returned, original_image_data,
                   se_text, loaded>>
    /\ UNCHANGED decVars

apply_dilation_filter ==
    Pressed("dilation", apply_dilation(image_data, image_width, image_height,
                                       structuring_element))

apply_erosion_filter ==
    Pressed("erosion", apply_erosion(image_data, image_width, image_height,
                                     structuring_element))

WindowNext ==
    \/ apply_dilation_filter
    \/ apply_erosion_filter

WindowSpec == WindowInit /\ [][WindowNext]_vars

---------------------------------------------------------------------------
(* Properties of dilation followed by erosion (closing) and of erosion     *)
(* followed by dilation (opening) under the default element.               *)

Closing(img, w, h) ==
    apply_erosion(apply_dilation(img, w, h, DefaultElement), w, h, DefaultElement)

\* pixel (x, y) has the whole window of the element inside the image
Interior(w, h, x, y) == ~Overhangs(DefaultElement, w, h, x, y)

\* C11: once dilation, erosion, dilation, erosion have been applied to a
\* binary image, every interior pixel holds the value it held after the
\* first dilation and erosion
C11_ClosingIdempotent ==
    applied = <<"dilation", "erosion", "dilation", "erosion">> =>
        \A x \in 0..(image_width - 1), y \in 0..(image_height - 1) :
            Interior(image_width, image_height, x, y) =>
                image_data[y * image_width + x + 1] =
                    Closing(original_image_data, image_width,
                            image_height)[y * image_width + x + 1]

\* dilation, erosion, dilation, erosion applied to an image in which a
\* pixel two or more pixels away from every border was 0, became 255 after
\* the first dilation and erosion, and is 255 after the second
C11_Witness ==
    /\ applied = <<"dilation", "erosion", "dilation", "erosion">>
    /\ \E x \in 2..(image_width - 3), y \in 2..(image_height - 3) :
        /\ original_image_data[y * image_width + x + 1] = Gray(0)
        /\ Closing(original_image_data, image_width,
                   image_height)[y * image_width + x + 1] = Gray(255)
        /\ image_data[y * image_width + x + 1] = Gray(255)

\* C12: once erosion then dilation have been applied to a binary image,
\* every border pixel of dilation then erosion of the same image is greater
\* than or equal to the pixel on display
C12_ClosingAboveOpeningOnBorder ==
    applied = <<"erosion", "dilation">> =>
        \A x \in 0..(image_width - 1), y \in 0..(image_height - 1) :
            ~Interior(image_width, image_height, x, y) =>
                Closing(original_image_data, image_width,
                        image_height)[y * image_width + x + 1][1]
                    >= image_data[y * image_width + x + 1][1]


---------------------------------------------------------------------------
(* One call of any of the six filters.  The image is drawn from a palette  *)
(* of three colours; a call varies the kernel size, the threshold or the   *)
(* shape of the structuring element and leaves the other two at the value  *)
(* the code gives them (kernel_size=3, threshold=128, the window's         *)
(* element).                                                               *)

\* images of up to MaxCallPixels pixels carry any colours; images of up to
\* MaxCallSide x MaxCallSide pixels are uniform but for at most one pixel;
\* the kernel size is at most MaxKernel
MaxCallPixels == 3
MaxCallSide == 3
MaxKernel == 4

\* black, the grey whose luminance the threshold 128 is meant to meet, and
\* a colour whose channels lie on both sides of that grey
Palette == {<<0, 0, 0>>, <<128, 128, 128>>, <<200, 10, 90>>}

\* thresholds around the luminances of the palette
Thresholds == {0, 75, 76, 127, 128, 255}

AnyImages(w, h) ==
    IF w * h <= MaxCallPixels THEN [1..(w * h) -> Palette] ELSE {}

\* every pixel u, except pixel `at`, which is o
OneOutlier(w, h, u, o, at) == [i \in 1..(w * h) |-> IF i = at THEN o ELSE u]

NearUniformImages(w, h) ==
    IF w <= MaxCallSide /\ h <= MaxCallSide
    THEN {OneOutlier(w, h, u, o, at) : u \in Palette, o \in Palette, at \in 1..(w * h)}
    ELSE {}

UniformImages(w, h) ==
    IF w <= MaxCallSide /\ h <= MaxCallSide
    THEN {OneOutlier(w, h, u, u, 1) : u \in Palette}
    ELSE {}

AllOnes(rows, cols) == [r \in 1..rows |-> [c \in 1..cols |-> 1]]

\* the arguments of one filter call, before the call
CallInit ==
    /\ DecoderIdle
    /\ WindowIdle
    /\ op = "idle"
    /\ image_width \in 1..Max2(MaxCallPixels, MaxCallSide)
    /\ image_height \in 1..Max2(MaxCallPixels, MaxCallSide)
    /\ \/ /\ image_data \in AnyImages(image_width, image_height)
                          \cup NearUniformImages(image_width, image_height)
          /\ kernel_size \in 1..MaxKernel
          /\ threshold = 128
          /\ structuring_element = DefaultElement
       \/ /\ image_data \in AnyImages(image_width, image_height)
          /\ kernel_size = 3
          /\ threshold \in Thresholds
          /\ structuring_element = DefaultElement
       \/ /\ image_data \in UniformImages(image_width, image_height)
          /\ kernel_size = 3
          /\ threshold = 128
          /\ \E rows \in 1..MaxElementCells, cols \in 1..MaxElementCells :
                 /\ rows * cols <= MaxElementCells
                 /\ structuring_element = AllOnes(rows, cols)
    /\ result = <<>>
    /\ heap = <<image_data, structuring_element>>
    /\ returned = 0

ApplyAveraging ==
    /\ op = "idle"
    /\ Returns("averaging", apply_averaging_filter(image_data, image_width,
                                                   image_height, kernel_size))

ApplyMedian ==
    /\ op = "idle"
    /\ Returns("median", apply_median_filter(image_data, image_width,
                                             image_height, kernel_size))

ApplySobel ==
    /\ op = "idle"
    /\ Returns("sobel", apply_sobel_filter(image_data, image_width, image_height))

ApplyBinary ==
    /\ op = "idle"
    /\ Returns("binary", rgb_to_binary(image_data, threshold))

CallNext ==
    \/ ApplyAveraging
    \/ ApplyMedian
    \/ ApplySobel
    \/ ApplyBinary
    \/ ApplyDilation
    \/ ApplyErosion

CallSpec == CallInit /\ [][CallNext]_vars


---------------------------------------------------------------------------
(* Properties of one filter call.                                          *)

Uniform(img) == \A i \in DOMAIN img, j \in DOMAIN img : img[i] = img[j]

\* C13: after apply_sobel_filter on an image whose pixels are all the same,
\* every output pixel, border and corner pixels included, is (0,0,0)
C13_SobelZeroOnUniform ==
    op = "sobel" /\ Uniform(image_data) =>
        \A i \in 1..(image_width * image_height) : result[i] = Gray(0)

\* C14: after apply_median_filter with kernel_size = 3 on an image of three
\* or more pixels that are all u except the one at position `at`, the
\* output at `at` is u
C14_MedianRejectsOutlier ==
    op = "median" /\ kernel_size = 3 /\ image_width * image_height >= 3 =>
        \A u \in Palette, o \in Palette, at \in 1..(image_width * image_height) :
            o # u /\ image_data = OneOutlier(image_width, image_height, u, o, at)
                => result[at] = u


\* the window of kernel size k, k odd, reaches (k - 1) / 2 pixels each way;
\* an even k is used as k + 1, which reaches k / 2
WindowReach(k) == k \div 2

\* the pixels <<nx, ny>> of the image within reach pixels of (x, y)
WindowSet(w, h, x, y, reach) ==
    {c \in (0..(w - 1)) \X (0..(h - 1)) :
        /\ x - reach <= c[1] /\ c[1] <= x + reach
        /\ y - reach <= c[2] /\ c[2] <= y + reach}

ValueAt(img, w, c, ch) == img[c[2] * w + c[1] + 1][ch]

\* the element at 0-based index n of the ascending list of the values of
\* channel ch over the pixels in S
Ranked(img, w, S, ch, n) ==
    CHOOSE v \in {ValueAt(img, w, c, ch) : c \in S} :
        /\ Cardinality({c \in S : ValueAt(img, w, c, ch) < v}) <= n
        /\ n < Cardinality({c \in S : ValueAt(img, w, c, ch) <= v})

RECURSIVE SetSum(_, _, _, _)
SetSum(img, w, S, ch) ==
    IF S = {} THEN 0
    ELSE LET c == CHOOSE a \in S : TRUE
         IN ValueAt(img, w, c, ch) + SetSum(img, w, S \ {c}, ch)

\* C15: after apply_median_filter, each channel of each output pixel is the
\* element at index count \div 2 of the ascending list of that channel over
\* the pixels of the window that lie inside the image, count being their
\* number
C15_MedianDefinition ==
    op = "median" =>
        /\ Len(result) = image_width * image_height
        /\ \A x \in 0..(image_width - 1), y \in 0..(image_height - 1), ch \in 1..3 :
            LET S == WindowSet(image_width, image_height, x, y,
                               WindowReach(kernel_size))
            IN result[y * image_width + x + 1][ch] =
                   Ranked(image_data, image_width, S, ch, Cardinality(S) \div 2)

\* a median call in which the window of some pixel is cut by the border to
\* an even number of pixels, the two middle values of a channel differ, and
\* the output is the upper one
C15_Witness ==
    /\ op = "median"
    /\ \E x \in 0..(image_width - 1), y \in 0..(image_height - 1), ch \in 1..3 :
        LET S == WindowSet(image_width, image_height, x, y,
                           WindowReach(kernel_size))
        IN /\ Cardinality(S) % 2 = 0
           /\ Ranked(image_data, image_width, S, ch, Cardinality(S) \div 2)
                  # Ranked(image_data, image_width, S, ch,
                           (Cardinality(S) \div 2) - 1)
           /\ result[y * image_width + x + 1][ch] =
                  Ranked(image_data, image_width, S, ch, Cardinality(S) \div 2)

\* C16: after apply_averaging_filter, each channel of each output pixel is
\* the mean of that channel over the pixels of the window that lie inside
\* the image, divided by their number and truncated; a uniform image comes
\* back unchanged
C16_SmoothingDefinition ==
    op = "averaging" =>
        /\ Len(result) = image_width * image_height
        /\ \A x \in 0..(image_width - 1), y \in 0..(image_height - 1), ch \in 1..3 :
            LET S == WindowSet(image_width, image_height, x, y,
                               WindowReach(kernel_size))
                m == result[y * image_width + x + 1][ch]
            IN /\ m * Cardinality(S) <= SetSum(image_data, image_width, S, ch)
               /\ SetSum(image_data, image_width, S, ch) < (m + 1) * Cardinality(S)
        /\ Uniform(image_data) => result = image_data

\* a smoothing call in which the window of some pixel is cut by the border,
\* the sum of a channel is not a multiple of the number of pixels inside,
\* and the output differs from the sum divided by the full window size
C16_Witness ==
    /\ op = "averaging"
    /\ \E x \in 0..(image_width - 1), y \in 0..(image_height - 1), ch \in 1..3 :
        LET S == WindowSet(image_width, image_height, x, y,
                           WindowReach(kernel_size))
            full == (2 * WindowReach(kernel_size) + 1)
                        * (2 * WindowReach(kernel_size) + 1)
        IN /\ Cardinality(S) < full
           /\ SetSum(image_data, image_width, S, ch) % Cardinality(S) # 0
           /\ result[y * image_width + x + 1][ch] =
                  SetSum(image_data, image_width, S, ch) \div Cardinality(S)
           /\ result[y * image_width + x + 1][ch] #
                  SetSum(image_data, image_width, S, ch) \div full


\* 0.299 R + 0.587 G + 0.114 B truncated to an integer, in exact arithmetic
ExactLuma(p) == LumaMilli(p) \div 1000

C18_OutputHasEveryPixel ==
    op # "idle" =>
        /\ DOMAIN result = 1..(image_width * image_height)
        /\ \A i \in DOMAIN result : DOMAIN result[i] = 1..3

\* a call of a window filter with an even kernel size wider than the image,
\* or of a morphology filter with an element larger than the image, that
\* returned one pixel per pixel of an image of two or more pixels
C18_Witness ==
    /\ image_width * image_height >= 2
    /\ Len(result) = image_width * image_height
    /\ \/ /\ op \in {"averaging", "median"}
          /\ kernel_size % 2 = 0
          /\ kernel_size > image_width
       \/ /\ op \in {"dilation", "erosion"}
          /\ SeHeight(structuring_element) > image_height

\* C19: after any filter call, the pixel list and the structuring element
\* passed in hold what they held before the call, and the list returned is
\* neither of them
C19_ArgumentsUntouched ==
    op # "idle" =>
        /\ heap[1] = image_data
        /\ heap[2] = structuring_element
        /\ returned \notin {1, 2}
        /\ heap[returned] = result

\* a call whose output differs from its input, returned in a third list
\* while the first still holds the input
C19_Witness ==
    /\ op \in {"averaging", "erosion"}
    /\ result # image_data
    /\ heap[1] = image_data
    /\ returned = 3
    /\ heap[3] = result

\* C20: apply_averaging_filter and apply_median_filter called with an even
\* kernel size return what they return for that kernel size plus one
C20_EvenKernelIsNextOdd ==
    /\ op = "averaging" /\ kernel_size % 2 = 0 =>
           result = apply_averaging_filter(image_data, image_width, image_height,
                                           kernel_size + 1)
    /\ op = "median" /\ kernel_size % 2 = 0 =>
           result = apply_median_filter(image_data, image_width, image_height,
                                        kernel_size + 1)

\* a median call with kernel size 4 whose output is the one for kernel
\* size 5 and differs from the one for kernel size 3
C20_Witness ==
    /\ op = "median"
    /\ kernel_size = 4
    /\ result = apply_median_filter(image_data, image_width, image_height, 5)
    /\ result # apply_median_filter(image_data, image_width, image_height, 3)


---------------------------------------------------------------------------
(* A session of the main window (main.py): loading PPM files, the filter   *)
(* buttons, edits of the structuring-element text, and the reset button.   *)
(* None is written <<>>; no file of the session decodes to an empty list.  *)
(* The decoder variables hold the outcome of the last load_ppm call.       *)

\* `int((r - r_min) * 255 / (r_max - r_min))`, or r when the channel is flat
\* (lines 546-557)
Scaled(v, lo, hi) == IF hi > lo THEN TruncDiv((v - lo) * 255, hi - lo) ELSE v

\* the list scale_colors builds (lines 535-558)
ScaledColors(img) ==
    [i \in 1..Len(img) |->
        [ch \in 1..3 |->
            Scaled(img[i][ch],
                   SetMin({img[j][ch] : j \in 1..Len(img)}),
                   SetMax({img[j][ch] : j \in 1..Len(img)}))]]

\* the images loaded have at most MaxSessionPixels pixels, and at most
\* MaxPresses buttons are pressed on an image after it is loaded
MaxSessionPixels == 2
MaxPresses == 2

\* the files the user picks: a well-formed P3 file of every size, and a P3
\* file of one pixel that is one sample short
SessionInputs ==
    {i \in [fmt : {"P3"}, w : 1..MaxSessionPixels, h : 1..MaxSessionPixels,
            mv : {255}, pool : {1}, split : {FALSE}, cat : {0}, cown : {TRUE},
            hdr : {4}, drop : {0, 1}] :
        /\ i.w * i.h <= MaxSessionPixels
        /\ i.drop > 0 => i.w = 1 /\ i.h = 1}

\* each file of the session with what load_ppm does on it
SessionLoads == {<<FileOf(i), LoadPpm(FileOf(i))>> : i \in SessionInputs}

\* the window after MainWindow.__init__ (lines 182-192, 270, 300)
SessionInit ==
    /\ DecoderIdle
    /\ op = "idle"
    /\ image_data = <<>>
    /\ image_width = 0
    /\ image_height = 0
    /\ structuring_element = DefaultElement
    /\ result = <<>>
    /\ kernel_size = 3
    /\ threshold = 128
    /\ heap = <<>>
    /\ returned = 0
    /\ original_image_data = <<>>
    /\ applied = <<>>
    /\ se_text = DefaultText
    /\ loaded = <<>>

\* load_ppm_file (lines 357-374) on file f: the fields are assigned when
\* load_ppm returns, nothing is when it raises PPMError; a call that never
\* returns is no step
load_ppm_file ==
    \E l \in SessionLoads :
        LET d == l[2]
        IN /\ Terminal(d)
           /\ file' = l[1]
           /\ pc' = d.pc
           /\ pos' = d.pos
           /\ width' = d.width
           /\ height' = d.height
           /\ max_value' = d.max_value
           /\ pixels' = d.pixels
           /\ error' = d.error
           /\ IF d.pc = "done"
              THEN /\ image_data' = d.pixels
                   /\ image_width' = d.width
                   /\ image_height' = d.height
                   /\ original_image_data' = d.pixels
                   /\ loaded' = <<d.width, d.height, d.pixels>>
                   /\ applied' = <<>>
              ELSE UNCHANGED <<image_data, image_width, image_height,
                               original_image_data, loaded, applied>>
           /\ UNCHANGED <<inp, op, structuring_element, result, kernel_size,
                          threshold, heap, returned, se_text>>

\* the end of a button handler: `self.image_data = ...`, after
\* update_structuring_element() has left se in the window; the record of the
\* press is the caller's
ShownAsOriginal(px, se) ==
    /\ image_data # <<>>
    /\ image_data' = px
    /\ original_image_data' = px
    /\ structuring_element' = se
    /\ UNCHANGED <<image_width, image_height, result, kernel_size, threshold,
                   heap, returned, se_text, loaded>>
    /\ UNCHANGED decVars

Shown(px, se) ==
    /\ image_data # <<>>
    /\ image_data' = px
    /\ structuring_element' = se
    /\ UNCHANGED <<image_width, image_height, result, kernel_size, threshold,
                   heap, returned, original_image_data, se_text, loaded>>
    /\ UNCHANGED decVars

apply_averaging ==
    Shown(apply_averaging_filter(image_data, image_width, image_height, kernel_size),
          structuring_element)

apply_median ==
    Shown(apply_median_filter(image_data, image_width, image_height, kernel_size),
          structuring_element)

apply_sobel ==
    Shown(apply_sobel_filter(image_data, image_width, image_height),
          structuring_element)

convert_to_binary ==
    Shown(rgb_to_binary(image_data, threshold), structuring_element)

\* apply_dilation_filter with any text in the field (lines 495-505)
dilation_clicked ==
    LET se == update_structuring_element(se_text, structuring_element)
    IN Shown(apply_dilation(image_data, image_width, image_height, se),
             se)

\* apply_erosion_filter with any text in the field (lines 507-517)
erosion_clicked ==
    LET se == update_structuring_element(se_text, structuring_element)
    IN Shown(apply_erosion(image_data, image_width, image_height, se),
             se)

scale_colors == Shown(ScaledColors(image_data), structuring_element)

\* reset_image (lines 519-526)
reset_image ==
    /\ original_image_data # <<>>
    /\ image_data' = original_image_data
    /\ UNCHANGED <<image_width, image_height, structuring_element, result,
                   kernel_size, threshold, heap, returned, original_image_data,
                   se_text, loaded>>
    /\ UNCHANGED decVars

\* an edit of the text field to one of texts: textChanged calls
\* update_structuring_element (line 301)
se_text_changed(texts) ==
    /\ \E t \in texts \ {se_text} :
        /\ se_text' = t
        /\ structuring_element' = update_structuring_element(t, structuring_element)
    /\ UNCHANGED <<image_data, image_width, image_height, result, kernel_size,
                   threshold, heap, returned, original_image_data, loaded>>
    /\ UNCHANGED decVars

\* the record of a button press, of which an image sees at most MaxPresses
Counted(name) ==
    /\ Len(applied) < MaxPresses
    /\ applied' = Append(applied, name)
    /\ UNCHANGED op

SessionNext ==
    \/ load_ppm_file
    \/ Counted("averaging") /\ apply_averaging
    \/ Counted("median") /\ apply_median
    \/ Counted("sobel") /\ apply_sobel
    \/ Counted("binary") /\ convert_to_binary
    \/ Counted("dilation") /\ dilation_clicked
    \/ Counted("erosion") /\ erosion_clicked
    \/ Counted("scale") /\ scale_colors
    \/ Counted("reset") /\ reset_image

SessionSpec == SessionInit /\ [][SessionNext]_vars

(***************************************************************************)
(* The structuring-element field of the main window                        *)
(***************************************************************************)

\* the field holds at most MaxTextLen characters once it has been cleared
MaxTextLen == 5

\* the keys typed into the field: a digit, a space, Enter and a letter
Keys == {Char0 + 1, SP, NL, CharP}

\* the window with an image of one white pixel loaded and the field untouched
ElementInit ==
    /\ DecoderIdle
    /\ op = "idle"
    /\ image_data = <<<<255, 255, 255>>>>
    /\ image_width = 1
    /\ image_height = 1
    /\ structuring_element = DefaultElement
    /\ result = <<>>
    /\ kernel_size = 3
    /\ threshold = 128
    /\ heap = <<>>
    /\ returned = 0
    /\ original_image_data = image_data
    /\ applied = <<>>
    /\ se_text = DefaultText
    /\ loaded = <<image_width, image_height, image_data>>

\* a key typed at the end of the field
key_typed ==
    /\ Len(se_text) < MaxTextLen
    /\ se_text_changed({Append(se_text, c) : c \in Keys})

\* the last character of the field deleted
backspace ==
    /\ se_text # <<>>
    /\ se_text_changed({SubSeq(se_text, 1, Len(se_text) - 1)})

\* the whole field selected and deleted
field_cleared == se_text_changed({<<>>})

\* no record of the presses is kept here
Unrecorded == UNCHANGED <<op, applied>>

ElementNext ==
    \/ Unrecorded /\ key_typed
    \/ Unrecorded /\ backspace
    \/ Unrecorded /\ field_cleared
    \/ Unrecorded /\ dilation_clicked
    \/ Unrecorded /\ erosion_clicked

ElementSpec == ElementInit /\ [][ElementNext]_vars


(***************************************************************************)
(* Undo in the main window                                                 *)
(***************************************************************************)

\* the last button pressed since the image was loaded, "" when there is none
LastPress == IF applied = <<>> THEN "" ELSE applied[Len(applied)]

\* C21: once a file has been loaded, whatever filters were applied and
\* whatever loads failed since, reset_image leaves in image_data exactly the
\* pixels the most recent successful load returned, image_width and
\* image_height are still those of that load, and original_image_data holds
\* those pixels at every moment: nothing but a successful load changes it
C21_ResetRestoresLastLoad ==
    /\ original_image_data = (IF loaded = <<>> THEN <<>> ELSE loaded[3])
    /\ loaded # <<>> => image_width = loaded[1] /\ image_height = loaded[2]
    /\ LastPress = "reset" => loaded # <<>> /\ image_data = loaded[3]

\* a load succeeded, Sobel changed the image, a later load failed, and
\* reset_image brought the loaded pixels back
C21_Witness ==
    /\ applied = <<"sobel", "reset">>
    /\ pc = "error"
    /\ loaded # <<>>
    /\ apply_sobel_filter(loaded[3], loaded[1], loaded[2]) # loaded[3]
    /\ image_data = loaded[3]

(***************************************************************************)
(* The shape of the structuring element                                    *)
(***************************************************************************)

\* at least one row, every row as long as the first, and that is >= 1
WellFormed(se) ==
    /\ Len(se) >= 1
    /\ Len(se[1]) >= 1
    /\ \A r \in 1..Len(se) : Len(se[r]) = Len(se[1])

\* the tokens of each line of text that is not blank
Tokens(text) ==
    LET lines == TextLines(text)
    IN [i \in 1..Len(lines) |-> Split(lines[i])]

\* the text is empty, ragged, or has a token that is not an integer
Malformed(text) ==
    LET rows == Tokens(text)
    IN \/ rows = <<>>
       \/ \E i \in 1..Len(rows) : Len(rows[i]) # Len(rows[1])
       \/ \E i \in 1..Len(rows) : \E j \in 1..Len(rows[i]) : ~IsInt(rows[i][j])

\* C22: whatever is typed into the field and whenever dilation or erosion is
\* requested, structuring_element has at least one row and all its rows have
\* one length >= 1, so the filters never get a malformed element; and an edit
\* that leaves an empty, ragged or non-integer text in the field leaves
\* structuring_element as it was
C22_ElementStaysRectangular ==
    /\ []WellFormed(structuring_element)
    /\ [][se_text' # se_text /\ Malformed(se_text')
            => structuring_element' = structuring_element]_vars

\* the field holds the ragged "1 1\n1", the element is still the <<1, 1>>
\* accepted three keys before, and erosion has been requested with it
C22_Witness ==
    /\ se_text = <<Char0 + 1, SP, Char0 + 1, NL, Char0 + 1>>
    /\ Malformed(se_text)
    /\ structuring_element = <<<<1, 1>>>>
    /\ image_data # loaded[3]

=============================================================================
